---------------------------- MODULE Spec2Model ----------------------------
(***************************************************************************)
(* A model of the SOW pipeline of src/app/execute_sowFile_byTeam.py:       *)
(*   - split_text_into_chunks        (SpecChunk)                           *)
(*   - SOWAnalyzer.analyze_and_generate_tasks and main()   (SpecAnalyze)   *)
(*   - TeamMember, TeamAgentCreator, execute_team          (SpecExec)      *)
(* and of the Streamlit front end of src/app/test.py:                      *)
(*   - execute_team_tasks, StreamlitLogHandler.emit, stop_team_execution   *)
(*     (SpecApp, SpecStatus)                                               *)
(* Every specification uses the same variables; the variables of the parts *)
(* a specification does not run stay at their idle values.                 *)
(***************************************************************************)
EXTENDS Integers, Sequences, FiniteSets, TLC

VARIABLES
    pc,              \* position of the running function
    text,            \* split_text_into_chunks: the text argument
    max_chunk_size,  \* split_text_into_chunks: the max_chunk_size argument
    overlap,         \* split_text_into_chunks: the overlap argument
    start,           \* split_text_into_chunks: local start
    chunks,          \* split_text_into_chunks: local chunks (the result)
    spans,           \* history: <<first, last>> 0-based [first, last) position
                     \* in text of every chunk appended to chunks
    team_members,    \* the list of TeamMember objects
    i,               \* analyze_and_generate_tasks: chunks handled so far
    tasks_by_role,   \* analyze_and_generate_tasks: the dict being built
    good,            \* history: per role, the task lists of the chunks that
                     \* were handled without an exception, concatenated
    failed,          \* history: per chunk, whether handling it raised
    foreign,         \* history: a reply listed tasks under a role that is
                     \* not in the team
    team_config,     \* the member records of team.json
    agents,          \* TeamAgentCreator.agents
    creator_tasks,   \* TeamAgentCreator.tasks
    crew,            \* the Crew handed to the engine: its agents and tasks
    execution_results, \* the record execute_team returns
    result_file,     \* the content of result.json
    error,           \* the exception execute_team raised, if any
    update_display,  \* whether the name update_display is bound where emit
                     \* looks it up
    session_tasks,   \* per session: st.session_state.tasks
    execution_started,   \* per session: st.session_state.execution_started
    execution_completed, \* per session: st.session_state.execution_completed
    run_pc,          \* per session: position of its script run in
                     \* execute_team_tasks / execute_team
    stream,          \* per session: the records the run is about to log
    handlers,        \* the StreamlitLogHandler objects on the root logger, by
                     \* the session that added them, in the order added
    team_status,     \* per session: team_status of its execute_team_tasks
    current_activity,    \* per session: current_activity
    current_logs,    \* per session: current_logs
    engine_task,     \* per session: how many tasks crew.kickoff() has begun
    run_error,       \* per session: the exception that ended its last run
    outcome,         \* history, per session: how its last run ended
    runs,            \* history, per session: script runs that entered
                     \* execute_team_tasks
    stop_signal,     \* history, per session: stop_team_execution was called
                     \* while the run was going on
    begun_after_stop,    \* history, per session: tasks begun after that
    failed_role,     \* history, per session: the role whose task raised
    sow_file,        \* per session: st.session_state.sow_file
    analysis,        \* history, per session: how its last analyze_sow ended
    start_pressed    \* history, per session: Start Team Execution was
                     \* pressed and execute_team has not been called since

chunkVars == <<text, max_chunk_size, overlap, start, chunks, spans>>

analyzeVars == <<team_members, i, tasks_by_role, good, failed, foreign>>

execVars ==
    <<team_config, agents, creator_tasks, crew, execution_results,
      result_file, error>>

statusVars ==
    <<update_display, session_tasks, execution_started, execution_completed,
      run_pc, stream, handlers, team_status, current_activity, current_logs,
      engine_task, run_error, outcome, runs, stop_signal, begun_after_stop,
      failed_role, sow_file, analysis, start_pressed>>

vars == <<pc, chunkVars, analyzeVars, execVars, statusVars>>

-----------------------------------------------------------------------------
(* Bounds of the model.                                                    *)

\* longest text drawn
MaxTextLen == 12
\* most '.' and line-break characters in a drawn text
MaxTerminators == 2
\* largest max_chunk_size drawn
MaxChunkSize == 8
\* largest overlap drawn
MaxOverlap == 4
\* cap on loop iterations of split_text_into_chunks (the loop need not end
\* for every parameter pair)
MaxChunks == 8
\* most chunks of a document under analysis
MaxSowChunks == 3
\* most roles named in one reply of the model
MaxReplyRoles == 2
\* most tool names configured for one team member
MaxTools == 2
\* most script runs of one session that enter execute_team_tasks
MaxRuns == 1
\* most such runs of the session followed from its first script run on
MaxReruns == 2

-----------------------------------------------------------------------------
(* Python primitives.                                                      *)

Max2(a, b) == IF a >= b THEN a ELSE b

Min2(a, b) == IF a <= b THEN a ELSE b

SetMax(S) == CHOOSE x \in S : \A y \in S : y <= x

\* A slice index as Python clamps it for a sequence of length n.
PyIndex(x, n) == IF x < 0 THEN Max2(x + n, 0) ELSE Min2(x, n)

\* s[lo0:hi0]
PySlice(s, lo0, hi0) ==
    LET lo == PyIndex(lo0, Len(s))
        hi == PyIndex(hi0, Len(s))
    IN  IF lo >= hi THEN << >> ELSE SubSeq(s, lo + 1, hi)

\* s.rfind(ch, lo0, hi0) for a one-character ch: the highest 0-based index k,
\* lo <= k < hi, with s[k] = ch, or -1.
rfind(s, ch, lo0, hi0) ==
    LET lo == PyIndex(lo0, Len(s))
        hi == PyIndex(hi0, Len(s))
        hits == {k \in lo .. (hi - 1) : s[k + 1] = ch}
    IN  IF hits = {} THEN -1 ELSE SetMax(hits)

-----------------------------------------------------------------------------
(* split_text_into_chunks                                                  *)

\* The characters of a text: an ordinary character, '.', and '\n'.
PERIOD == "."
NEWLINE == "LF"
Chars == {"a", PERIOD, NEWLINE}

\* The literal 200 of the look-back (text.rfind('.', end - 200, end) and
\* break_point > end - 200), scaled with the texts of the model.
LOOKBACK == 4

\* The defaults max_chunk_size = 8000 and overlap = 200, at the same scale.
DEFAULT_MAX_CHUNK_SIZE == 8
DEFAULT_OVERLAP == 4

Texts ==
    UNION { {t \in [1 .. n -> Chars] :
                Cardinality({p \in 1 .. n : t[p] # "a"}) <= MaxTerminators}
            : n \in 0 .. MaxTextLen }

\* ChunkEnd with the break searched after the hard end instead of before it.
ChunkEnd_LookAhead(t, s, size) ==
    LET end == s + size
    IN  IF end < Len(t)
        THEN LET last_period == rfind(t, PERIOD, end, end + LOOKBACK)
                 last_newline == rfind(t, NEWLINE, end, end + LOOKBACK)
                 break_point == Max2(last_period, last_newline)
             IN  IF break_point >= end THEN break_point + 1 ELSE end
        ELSE end

\* The value of end when the chunk is appended (lines 232-243).
ChunkEnd(t, s, size) ==
    LET end == s + size
    IN  IF end < Len(t)
        THEN LET last_period == rfind(t, PERIOD, end - LOOKBACK, end)
                 last_newline == rfind(t, NEWLINE, end - LOOKBACK, end)
                 break_point == Max2(last_period, last_newline)
             IN  IF break_point > end - LOOKBACK THEN break_point + 1 ELSE end
        ELSE end

\* NextStart with the overlap forgotten.
NextStart_NoOverlap(end, ov) == end

\* start = end - overlap (line 249)
NextStart(end, ov) == end - ov

\* The 0-based positions [first, last) of text[s:e].
SliceSpan(t, s, e) ==
    LET lo == PyIndex(s, Len(t))
        hi == PyIndex(e, Len(t))
    IN  <<lo, Max2(lo, hi)>>

analyzeIdle ==
    /\ team_members = << >>
    /\ i = 0
    /\ tasks_by_role = << >>
    /\ good = << >>
    /\ failed = << >>
    /\ foreign = FALSE

execIdle ==
    /\ team_config = << >>
    /\ agents = << >>
    /\ creator_tasks = << >>
    /\ crew = [agents |-> << >>, tasks |-> << >>]
    /\ execution_results = << >>
    /\ result_file = << >>
    /\ error = "none"

statusIdle ==
    /\ update_display = "unbound"
    /\ session_tasks = << >>
    /\ execution_started = << >>
    /\ execution_completed = << >>
    /\ run_pc = << >>
    /\ stream = << >>
    /\ handlers = << >>
    /\ team_status = << >>
    /\ current_activity = << >>
    /\ current_logs = << >>
    /\ engine_task = << >>
    /\ run_error = << >>
    /\ outcome = << >>
    /\ runs = << >>
    /\ stop_signal = << >>
    /\ begun_after_stop = << >>
    /\ failed_role = << >>
    /\ sow_file = << >>
    /\ analysis = << >>
    /\ start_pressed = << >>

InitChunk ==
    /\ pc = "split"
    /\ text \in Texts
    /\ max_chunk_size \in 1 .. MaxChunkSize
    /\ overlap \in 0 .. MaxOverlap
    /\ overlap < max_chunk_size
    /\ start = 0
    /\ chunks = << >>
    /\ spans = << >>
    /\ analyzeIdle
    /\ execIdle
    /\ statusIdle

\* if len(text) <= max_chunk_size: return [text]
SplitWhole ==
    /\ pc = "split"
    /\ Len(text) <= max_chunk_size
    /\ chunks' = <<text>>
    /\ spans' = << <<0, Len(text)>> >>
    /\ pc' = "split_done"
    /\ UNCHANGED <<text, max_chunk_size, overlap, start>>
    /\ UNCHANGED <<analyzeVars, execVars>>
    /\ UNCHANGED statusVars

\* chunks = []; start = 0
SplitEnter ==
    /\ pc = "split"
    /\ Len(text) > max_chunk_size
    /\ chunks' = << >>
    /\ start' = 0
    /\ pc' = "split_loop"
    /\ UNCHANGED <<text, max_chunk_size, overlap, spans>>
    /\ UNCHANGED <<analyzeVars, execVars>>
    /\ UNCHANGED statusVars

\* one iteration of while start < len(text)
SplitStep ==
    /\ pc = "split_loop"
    /\ start < Len(text)
    /\ Len(chunks) < MaxChunks
    /\ LET end == ChunkEnd(text, start, max_chunk_size)
       IN  /\ chunks' = Append(chunks, PySlice(text, start, end))
           /\ spans' = Append(spans, SliceSpan(text, start, end))
           /\ start' = NextStart(end, overlap)
    /\ UNCHANGED <<pc, text, max_chunk_size, overlap>>
    /\ UNCHANGED <<analyzeVars, execVars>>
    /\ UNCHANGED statusVars

\* the loop condition fails: return chunks
SplitReturn ==
    /\ pc = "split_loop"
    /\ start >= Len(text)
    /\ pc' = "split_done"
    /\ UNCHANGED chunkVars
    /\ UNCHANGED <<analyzeVars, execVars>>
    /\ UNCHANGED statusVars

NextChunk == SplitWhole \/ SplitEnter \/ SplitStep \/ SplitReturn

SpecChunk == InitChunk /\ [][NextChunk]_vars


-----------------------------------------------------------------------------
(* Properties of split_text_into_chunks.                                   *)

SplitDone == pc = "split_done"

DefaultCall ==
    max_chunk_size = DEFAULT_MAX_CHUNK_SIZE /\ overlap = DEFAULT_OVERLAP

\* chunk[overlap:]
Core(c, ov) == PySlice(c, ov, Len(c))

\* The first chunk followed by the core of every later chunk.
RECURSIVE CoresFrom(_, _, _)
CoresFrom(cs, ov, n) ==
    IF n > Len(cs) THEN << >>
    ELSE (IF n = 1 THEN cs[1] ELSE Core(cs[n], ov)) \o CoresFrom(cs, ov, n + 1)

C2_ChunkWithinMax ==
    \A n \in 1 .. Len(chunks) : Len(chunks[n]) <= max_chunk_size

\* The loop returned several chunks, one of full size and one cut short at a
\* break inside the text.
C2_Witness ==
    /\ SplitDone
    /\ DefaultCall
    /\ \E n \in 1 .. Len(chunks) : Len(chunks[n]) = max_chunk_size
    /\ \E n \in 1 .. Len(chunks) :
          Len(chunks[n]) < max_chunk_size /\ spans[n][2] < Len(text)

\* C3, as claimed: with the default parameters, every chunk after the first
\* starts exactly `overlap` characters before the position where the chunk
\* before it ended, and when the later chunk of an adjacent pair is not the
\* final chunk its first `overlap` characters are the last `overlap`
\* characters of the earlier one.
C3_StartsOverlapBeforePreviousEnd ==
    (SplitDone /\ DefaultCall) =>
        \A n \in 2 .. Len(chunks) :
            /\ spans[n][1] = spans[n - 1][2] - overlap
            /\ n < Len(chunks) =>
                  PySlice(chunks[n], 0, overlap)
                      = PySlice(chunks[n - 1], Len(chunks[n - 1]) - overlap,
                                Len(chunks[n - 1]))

\* One iteration of the loop has run: a chunk was appended.
Iterated == pc = "split_loop" /\ Len(chunks') = Len(chunks) + 1

\* The 0-based positions of the '.' and line-break characters of t among the
\* last ov positions before end.
TerminatorsBefore(t, end, ov) ==
    {k \in Max2(end - ov, 0) .. (end - 1) :
        k < Len(t) /\ t[k + 1] \in {PERIOD, NEWLINE}}

\* The chunk end as claimed: just after the latest terminator among the last
\* ov characters before the hard end, or the hard end when there is none.
ClaimedEnd(t, s, size, ov) ==
    LET end == s + size
        hits == TerminatorsBefore(t, end, ov)
    IN  IF hits = {} THEN end ELSE SetMax(hits) + 1

\* C17, as claimed, for the default parameters (where `overlap` is the width
\* the code looks back): in every iteration whose hard end start +
\* max_chunk_size lies strictly inside the text, the chunk ends just after
\* the latest '.' or line break among the last `overlap` characters before
\* the hard end, wherever in that window it is, and at the hard end when
\* there is none.  The end the code used is start' + overlap.
C17_BreaksAfterLastTerminatorInLookback ==
    [][(Iterated /\ DefaultCall /\ start + max_chunk_size < Len(text))
          => start' + overlap
                = ClaimedEnd(text, start, max_chunk_size, overlap)]_vars

\* C18, as claimed (0 <= overlap < max_chunk_size in every call drawn):
\* every iteration of the loop emits a non-empty chunk and leaves start
\* strictly further into the text than it was.
C18_EveryIterationAdvances ==
    [][Iterated => /\ chunks'[Len(chunks')] # << >>
                   /\ start' > start]_vars

\* Position p of the text lies in the span sp.
InSpan(p, sp) == sp[1] <= p /\ p < sp[2]

\* C19, as claimed, for the default parameters: of the chunks returned, the
\* last one and no other reaches the end of the text, and every chunk after
\* the first holds a position of the text that no earlier chunk holds.
C19_OnlyLastChunkReachesEnd ==
    (SplitDone /\ DefaultCall) =>
        /\ \A n \in 1 .. Len(chunks) :
              (spans[n][2] = Len(text)) <=> (n = Len(chunks))
        /\ \A n \in 2 .. Len(chunks) :
              \E p \in spans[n][1] .. (spans[n][2] - 1) :
                  \A m \in 1 .. (n - 1) : ~InSpan(p, spans[m])

-----------------------------------------------------------------------------
(* Python dicts keep insertion order: a dict is the sequence of its        *)
(* <<key, value>> items.                                                   *)

DictKeySet(d) == {d[k][1] : k \in 1 .. Len(d)}

DictHas(d, key) == \E k \in 1 .. Len(d) : d[k][1] = key

DictGet(d, key) == d[CHOOSE k \in 1 .. Len(d) : d[k][1] = key][2]

\* d[key] = v
DictSet(d, key, v) ==
    IF DictHas(d, key)
    THEN [k \in 1 .. Len(d) |-> IF d[k][1] = key THEN <<key, v>> ELSE d[k]]
    ELSE Append(d, <<key, v>>)

Elems(s) == {s[k] : k \in 1 .. Len(s)}

-----------------------------------------------------------------------------
(* TeamMember and the team configuration                                   *)

\* The keys of TOOL_MAPPING.
TOOL_MAPPING == {"Cursor", "GitHub", "Postman", "Python SDK", "Node.js SDK"}

\* [TOOL_MAPPING[tool] for tool in tools if tool in TOOL_MAPPING]; a tool
\* object is named by its key.
\* A resolution without the `if tool in TOOL_MAPPING` filter: not the
\* code's.
ResolveTools_KeepAll(tools) == tools

RECURSIVE ResolveTools(_)
ResolveTools(tools) ==
    IF tools = << >> THEN << >>
    ELSE (IF Head(tools) \in TOOL_MAPPING THEN <<Head(tools)>> ELSE << >>)
             \o ResolveTools(Tail(tools))

\* TeamMember.__init__
TeamMember(role, tools) ==
    [role |-> role, tools |-> ResolveTools(tools), tasks |-> << >>]

\* The role names of the team configuration.
TeamRoles == {"Developer", "Tester"}

-----------------------------------------------------------------------------
(* SOWAnalyzer.analyze_and_generate_tasks and main()                       *)

\* The value a reply gives for a role: a JSON array of strings, or a value
\* that list.extend cannot iterate (null).
ListValue(l) == [kind |-> "list", items |-> l]
NullValue == [kind |-> "null", items |-> << >>]

TaskLists == {<< >>, <<"a", "b">>, <<"b", "c">>}

ReplyValues == {ListValue(l) : l \in TaskLists} \cup {NullValue}

\* A role name that no team member has.
ReplyRoles == TeamRoles \cup {"Intern"}

\* The items of a JSON object reply, in document order: distinct keys.
ReplyItems ==
    UNION { {it \in [1 .. n -> ReplyRoles \X ReplyValues] :
                \A p, q \in 1 .. n : p # q => it[p][1] # it[q][1]}
            : n \in 0 .. MaxReplyRoles }

\* What one chunk's request produces: the call raises, the content is not
\* JSON, the JSON is not an object, or it is an object.
Responses ==
    {[kind |-> k, items |-> << >>] : k \in {"api_error", "bad_json", "not_object"}}
        \cup {[kind |-> "object", items |-> it] : it \in ReplyItems}

\* {member.role: [] for member in self.team_members}
RECURSIVE EmptyTasks(_)
EmptyTasks(members) ==
    IF members = << >> THEN << >>
    ELSE LET rest == EmptyTasks(SubSeq(members, 1, Len(members) - 1))
         IN  DictSet(rest, members[Len(members)].role, << >>)

\* MergeItems that files tasks under roles the team does not have.
RECURSIVE MergeItems_AnyRole(_, _, _)
MergeItems_AnyRole(d, items, k) ==
    IF k > Len(items) THEN [dict |-> d, raised |-> FALSE]
    ELSE LET role == items[k][1]
             tasks == items[k][2]
             old == IF DictHas(d, role) THEN DictGet(d, role) ELSE << >>
         IN  IF tasks.kind = "null"
             THEN [dict |-> d, raised |-> TRUE]
             ELSE MergeItems_AnyRole(DictSet(d, role, old \o tasks.items),
                                     items, k + 1)

\* for role, tasks in chunk_tasks.items():
\*     if role in tasks_by_role: tasks_by_role[role].extend(tasks)
\* from item k on; extend raises TypeError on a value it cannot iterate.
RECURSIVE MergeItems(_, _, _)
MergeItems(d, items, k) ==
    IF k > Len(items) THEN [dict |-> d, raised |-> FALSE]
    ELSE LET role == items[k][1]
             tasks == items[k][2]
         IN  IF DictHas(d, role)
             THEN IF tasks.kind = "null"
                  THEN [dict |-> d, raised |-> TRUE]
                  ELSE MergeItems(DictSet(d, role, DictGet(d, role) \o tasks.items),
                                  items, k + 1)
             ELSE MergeItems(d, items, k + 1)

\* The body of the try block for one response (lines 311-325).
HandleResponse(d, resp) ==
    IF resp.kind = "object"
    THEN MergeItems(d, resp.items, 1)
    ELSE [dict |-> d, raised |-> TRUE]

\* AfterChunk with the exception of a chunk left to propagate.
AfterChunk_Propagate(raised) ==
    IF raised THEN "analyze_raised" ELSE "analyze_loop"

\* Where control goes after one chunk: both except clauses print and the
\* loop goes on (lines 327-330).
AfterChunk(raised) == "analyze_loop"

\* list(dict.fromkeys(l)): the first occurrence of every element, in order.
RECURSIVE Dedupe(_)
Dedupe(l) ==
    IF l = << >> THEN << >>
    ELSE LET init == SubSeq(l, 1, Len(l) - 1)
             last == l[Len(l)]
         IN  IF last \in Elems(init) THEN Dedupe(init)
             ELSE Append(Dedupe(init), last)

\* Lines 333-338, for tasks_by_role.
RECURSIVE DedupeRoles(_, _, _)
DedupeRoles(d, members, k) ==
    IF k > Len(members) THEN d
    ELSE LET role == members[k].role
         IN  IF DictHas(d, role)
             THEN DedupeRoles(DictSet(d, role, Dedupe(DictGet(d, role))),
                              members, k + 1)
             ELSE DedupeRoles(d, members, k + 1)

\* Lines 333-338, for member.tasks.
MembersWithTasks(d, members) ==
    [k \in 1 .. Len(members) |->
        IF DictHas(d, members[k].role)
        THEN [members[k] EXCEPT !.tasks = Dedupe(DictGet(d, members[k].role))]
        ELSE members[k]]

\* The teams main() may load: one member per role, in any order.
Teams ==
    UNION { {t \in [1 .. n -> TeamRoles] :
                \A p, q \in 1 .. n : p # q => t[p] # t[q]}
            : n \in 1 .. Cardinality(TeamRoles) }

\* History: what the chunks handled without an exception list for each team
\* role, read from the reply itself.
ReplyList(resp, role) ==
    IF \E k \in 1 .. Len(resp.items) : resp.items[k][1] = role
    THEN DictGet(resp.items, role).items
    ELSE << >>

ReplyClean(resp, d) ==
    /\ resp.kind = "object"
    /\ \A k \in 1 .. Len(resp.items) :
          DictHas(d, resp.items[k][1]) => resp.items[k][2].kind = "list"

ReplyForeign(resp, d) ==
    \E k \in 1 .. Len(resp.items) :
        /\ ~DictHas(d, resp.items[k][1])
        /\ resp.items[k][2].items # << >>

chunkIdle ==
    /\ text = << >>
    /\ max_chunk_size = 0
    /\ overlap = 0
    /\ start = 0
    /\ spans = << >>

\* main() has loaded the team and built the analyzer: self.chunks is set.
InitAnalyze ==
    /\ pc = "analyze"
    /\ chunkIdle
    /\ \E n \in 1 .. MaxSowChunks : chunks = [k \in 1 .. n |-> <<"a">>]
    /\ \E t \in Teams :
          team_members = [k \in 1 .. Len(t) |-> TeamMember(t[k], << >>)]
    /\ i = 0
    /\ tasks_by_role = << >>
    /\ good = << >>
    /\ failed = << >>
    /\ foreign = FALSE
    /\ execIdle
    /\ statusIdle

\* line 261
AnalyzeStart ==
    /\ pc = "analyze"
    /\ tasks_by_role' = EmptyTasks(team_members)
    /\ good' = EmptyTasks(team_members)
    /\ pc' = "analyze_loop"
    /\ UNCHANGED <<team_members, i, failed, foreign>>
    /\ UNCHANGED <<chunkVars, execVars>>
    /\ UNCHANGED statusVars

\* One iteration of for i, chunk in enumerate(self.chunks) (lines 274-330).
AnalyzeChunk ==
    /\ pc = "analyze_loop"
    /\ i < Len(chunks)
    /\ \E resp \in Responses :
          LET out == HandleResponse(tasks_by_role, resp)
          IN  /\ tasks_by_role' = out.dict
              /\ pc' = AfterChunk(out.raised)
              /\ failed' = Append(failed, out.raised)
              /\ good' = IF ReplyClean(resp, tasks_by_role)
                         THEN [k \in 1 .. Len(good) |->
                                  <<good[k][1],
                                    good[k][2] \o ReplyList(resp, good[k][1])>>]
                         ELSE good
              /\ foreign' = (foreign \/ ReplyForeign(resp, tasks_by_role))
    /\ i' = i + 1
    /\ UNCHANGED team_members
    /\ UNCHANGED <<chunkVars, execVars>>
    /\ UNCHANGED statusVars

\* Lines 332-340: remove duplicates, update the members, return.
AnalyzeReturn ==
    /\ pc = "analyze_loop"
    /\ i = Len(chunks)
    /\ tasks_by_role' = DedupeRoles(tasks_by_role, team_members, 1)
    /\ team_members' = MembersWithTasks(tasks_by_role, team_members)
    /\ pc' = "analyze_done"
    /\ UNCHANGED <<i, good, failed, foreign>>
    /\ UNCHANGED <<chunkVars, execVars>>
    /\ UNCHANGED statusVars

\* main(): display_tasks_for_confirmation(tasks), then execute_team
\* (lines 513-521).
MainConfirm ==
    /\ pc = "analyze_done"
    /\ \E confirmation \in {"yes", "no"} :
          pc' = IF confirmation = "yes" THEN "execute_team" ELSE "cancelled"
    /\ UNCHANGED <<analyzeVars, execVars>>
    /\ UNCHANGED chunkVars
    /\ UNCHANGED statusVars

NextAnalyze == AnalyzeStart \/ AnalyzeChunk \/ AnalyzeReturn \/ MainConfirm

SpecAnalyze == InitAnalyze /\ [][NextAnalyze]_vars

-----------------------------------------------------------------------------
(* Properties of analyze_and_generate_tasks and main().                    *)

TeamRoleSet == {team_members[k].role : k \in 1 .. Len(team_members)}

AllEmpty(d) == \A k \in 1 .. Len(d) : d[k][2] = << >>

\* The first occurrence of every element of l, in order: element n is kept
\* when no earlier position holds the same string.
FirstOccurrences(l) ==
    LET keep == {n \in 1 .. Len(l) : \A m \in 1 .. (n - 1) : l[m] # l[n]}
        nth(j) == CHOOSE n \in keep : Cardinality({m \in keep : m < n}) = j - 1
    IN  [j \in 1 .. Cardinality(keep) |-> l[nth(j)]]

\* C4, as claimed: when analyze_and_generate_tasks has returned, each role's
\* list is the concatenation, in chunk order, of that role's lists from the
\* chunks that were handled without an exception, with only the first
\* occurrence of every string kept.
C4_ListsOfHandledChunksDeduped ==
    pc = "analyze_done" =>
        \A k \in 1 .. Len(tasks_by_role) :
            tasks_by_role[k][2]
                = FirstOccurrences(DictGet(good, tasks_by_role[k][1]))

\* C5: from the creation of tasks_by_role to its return, its keys are exactly
\* the roles of the team members, each once: a role without tasks keeps its
\* empty list and no reply adds a key.
C5_KeysAreTeamRoles ==
    pc \in {"analyze_loop", "analyze_done", "execute_team", "cancelled"} =>
        /\ DictKeySet(tasks_by_role) = TeamRoleSet
        /\ Len(tasks_by_role) = Cardinality(TeamRoleSet)

\* The analysis returned after a reply listed tasks under a role that is not
\* in the team, and one team role ended with no task.
C5_Witness ==
    /\ pc = "analyze_done"
    /\ foreign
    /\ \E k \in 1 .. Len(tasks_by_role) : tasks_by_role[k][2] = << >>
    /\ \E k \in 1 .. Len(tasks_by_role) : tasks_by_role[k][2] # << >>

\* C6: no chunk's failure ends the analysis with an exception; when it
\* returns, every chunk has been handled, a failed one included, and every
\* task of every chunk that did not fail is in its role's list.
C6_FailedChunkIsSkipped ==
    /\ pc # "analyze_raised"
    /\ Len(failed) = i
    /\ pc = "analyze_done" =>
          /\ i = Len(chunks)
          /\ \A k \in 1 .. Len(good) :
                Elems(good[k][2]) \subseteq Elems(DictGet(tasks_by_role, good[k][1]))

\* The analysis returned; the second of three chunks failed, and tasks of the
\* first and of the third chunk are in the result.
C6_Witness ==
    /\ pc = "analyze_done"
    /\ failed = <<FALSE, TRUE, FALSE>>
    /\ \E k \in 1 .. Len(tasks_by_role) :
          {"a", "c"} \subseteq Elems(tasks_by_role[k][2])

\* C7, as claimed: the analysis never returns a TaskSet whose lists are all
\* empty as its result, and main() never goes on to execute_team with one.
C7_EmptyResultIsAnError ==
    pc \in {"analyze_done", "execute_team"} => ~AllEmpty(tasks_by_role)

\* C20, as claimed: when handling a chunk fails (the call raises, the reply
\* is not JSON, or merging a role's value raises), tasks_by_role is after
\* that chunk exactly what it was before it.
C20_FailedChunkLeavesTaskSetUnchanged ==
    [][(pc = "analyze_loop" /\ i' = i + 1 /\ failed'[i'])
          => tasks_by_role' = tasks_by_role]_vars

-----------------------------------------------------------------------------
(* load_team_data, TeamAgentCreator and execute_team                       *)

\* Tool names a member record of team.json may list; "Bogus" is not a key of
\* TOOL_MAPPING.
ConfigToolNames == {"Cursor", "GitHub", "Bogus"}

ConfigToolLists ==
    UNION { [1 .. n -> ConfigToolNames] : n \in 0 .. MaxTools }

\* The contents of team.json: one record per role, in any order.
TeamConfigs ==
    UNION { {c \in [1 .. n -> [role : TeamRoles, tools : ConfigToolLists]] :
                \A p, q \in 1 .. n : p # q => c[p].role # c[q].role}
            : n \in 1 .. Cardinality(TeamRoles) }

\* [TeamMember(**member) for member in team_data]
load_team_data(config) ==
    [k \in 1 .. Len(config) |-> TeamMember(config[k].role, config[k].tools)]

\* The lists analyze_and_generate_tasks can return for a role: no string
\* twice.
ResultLists == {<< >>, <<"a">>, <<"a", "b">>, <<"b", "a">>, <<"a", "b", "c">>}

\* The TaskSets analyze_and_generate_tasks can return for a team: the roles
\* of the members as keys, in member order.
TaskSetsOf(members) ==
    {[k \in 1 .. Len(members) |-> <<members[k].role, l[k]>>] :
        l \in [1 .. Len(members) -> ResultLists]}

\* TeamAgentCreator.create_agent
create_agent(member) ==
    [role |-> member.role,
     goal |-> <<"Successfully complete all assigned tasks for the role", member.role>>,
     tools |-> member.tools]

\* create_agents that makes no agent for a member without tasks.
RECURSIVE create_agents_SkipIdle(_)
create_agents_SkipIdle(members) ==
    IF members = << >> THEN << >>
    ELSE LET rest == create_agents_SkipIdle(SubSeq(members, 1, Len(members) - 1))
             member == members[Len(members)]
         IN  IF member.tasks = << >> THEN rest
             ELSE DictSet(rest, member.role, create_agent(member))

\* TeamAgentCreator.create_agents: self.agents after the loop.
RECURSIVE create_agents(_)
create_agents(members) ==
    IF members = << >> THEN << >>
    ELSE LET rest == create_agents(SubSeq(members, 1, Len(members) - 1))
             member == members[Len(members)]
         IN  DictSet(rest, member.role, create_agent(member))

Task(task_desc, agent) ==
    [description |-> task_desc,
     expected_output |-> <<"Complete the task:", task_desc>>,
     agent |-> agent]

\* assign_tasks with self.tasks[role] = [] run again for every task, so that
\* only the last task of a role stays.
RECURSIVE assign_tasks_KeepLast(_, _)
assign_tasks_KeepLast(ags, tbr) ==
    IF tbr = << >> THEN << >>
    ELSE LET rest == assign_tasks_KeepLast(ags, SubSeq(tbr, 1, Len(tbr) - 1))
             role == tbr[Len(tbr)][1]
             task_descriptions == tbr[Len(tbr)][2]
         IN  IF DictHas(ags, role)
             THEN DictSet(rest, role,
                     IF task_descriptions = << >> THEN << >>
                     ELSE <<Task(task_descriptions[Len(task_descriptions)],
                                 DictGet(ags, role))>>)
             ELSE rest

\* TeamAgentCreator.assign_tasks: self.tasks after the loop.
RECURSIVE assign_tasks(_, _)
assign_tasks(ags, tbr) ==
    IF tbr = << >> THEN << >>
    ELSE LET rest == assign_tasks(ags, SubSeq(tbr, 1, Len(tbr) - 1))
             role == tbr[Len(tbr)][1]
             task_descriptions == tbr[Len(tbr)][2]
         IN  IF DictHas(ags, role)
             THEN DictSet(rest, role,
                     [n \in 1 .. Len(task_descriptions) |->
                         Task(task_descriptions[n], DictGet(ags, role))])
             ELSE rest

\* list(d.values())
DictValues(d) == [k \in 1 .. Len(d) |-> d[k][2]]

\* TeamAgentCreator.get_all_tasks
RECURSIVE get_all_tasks(_)
get_all_tasks(ct) ==
    IF ct = << >> THEN << >>
    ELSE ct[1][2] \o get_all_tasks(Tail(ct))

\* agent_creator.tasks.get(role, [])
TasksOfRole(ct, role) == IF DictHas(ct, role) THEN DictGet(ct, role) ELSE << >>

\* The record built at lines 428-441.
ExecutionResults(ags, ct, tbr) ==
    [agents |-> [k \in 1 .. Len(ags) |->
                    <<ags[k][1],
                      [name |-> ags[k][2].role,
                       goal |-> ags[k][2].goal,
                       tools |-> ags[k][2].tools,
                       assigned_tasks |-> Len(TasksOfRole(ct, ags[k][1]))]>>],
     tasks |-> tbr,
     execution_result |-> "result"]

\* save_results_to_json
ResultFile(ags, tbr) ==
    [agents |-> [k \in 1 .. Len(ags) |->
                    <<ags[k][1],
                      [name |-> ags[k][2].role,
                       goal |-> ags[k][2].goal,
                       tools |-> ags[k][2].tools]>>],
     tasks |-> tbr,
     execution_result |-> "result"]

InitExec ==
    /\ pc = "load_team"
    /\ chunkIdle
    /\ chunks = << >>
    /\ analyzeIdle
    /\ team_config \in TeamConfigs
    /\ agents = << >>
    /\ creator_tasks = << >>
    /\ crew = [agents |-> << >>, tasks |-> << >>]
    /\ execution_results = << >>
    /\ result_file = << >>
    /\ error = "none"
    /\ statusIdle

\* main(): team_members = load_team_data()
LoadTeam ==
    /\ pc = "load_team"
    /\ team_members' = load_team_data(team_config)
    /\ pc' = "analyze"
    /\ UNCHANGED <<i, tasks_by_role, good, failed, foreign>>
    /\ UNCHANGED <<chunkVars, execVars>>
    /\ UNCHANGED statusVars

\* main(): tasks = analyzer.analyze_and_generate_tasks(), confirmed by the
\* user; the analysis is taken by its result.
AnalyzeResult ==
    /\ pc = "analyze"
    /\ \E ts \in TaskSetsOf(team_members) :
          /\ tasks_by_role' = ts
          /\ team_members' = MembersWithTasks(ts, team_members)
    /\ pc' = "execute_team"
    /\ UNCHANGED <<i, good, failed, foreign>>
    /\ UNCHANGED <<chunkVars, execVars>>
    /\ UNCHANGED statusVars

\* execute_team: agent_creator.create_agents() (lines 403-404)
CreateAgents ==
    /\ pc = "execute_team"
    /\ agents' = create_agents(team_members)
    /\ pc' = "assign_tasks"
    /\ UNCHANGED <<team_config, creator_tasks, crew, execution_results,
                   result_file, error>>
    /\ UNCHANGED <<chunkVars, analyzeVars>>
    /\ UNCHANGED statusVars

\* execute_team: agent_creator.assign_tasks(tasks) (line 408)
AssignTasks ==
    /\ pc = "assign_tasks"
    /\ creator_tasks' = assign_tasks(agents, tasks_by_role)
    /\ pc' = "build_crew"
    /\ UNCHANGED <<team_config, agents, crew, execution_results,
                   result_file, error>>
    /\ UNCHANGED <<chunkVars, analyzeVars>>
    /\ UNCHANGED statusVars

\* execute_team: crew = Crew(agents=..., tasks=..., process=sequential)
\* (lines 412-420)
BuildCrew ==
    /\ pc = "build_crew"
    /\ crew' = [agents |-> DictValues(agents),
                tasks |-> get_all_tasks(creator_tasks)]
    /\ pc' = "kickoff"
    /\ UNCHANGED <<team_config, agents, creator_tasks, execution_results,
                   result_file, error>>
    /\ UNCHANGED <<chunkVars, analyzeVars>>
    /\ UNCHANGED statusVars

\* The names bound at module level by the import statements (lines 1-12);
\* `import traceback` at line 546 binds a local name of main() only.
ModuleGlobals ==
    {"Document", "json", "os", "OpenAI", "List", "Dict", "Any", "Optional",
     "Type", "time", "datetime", "Agent", "Task", "Crew", "Process",
     "BaseTool", "logging", "load_dotenv", "sys"}

\* The exception crew.kickoff() raises.
ENGINE_ERROR == "EngineError"

\* The except block of execute_team (lines 466-470), entered with exception
\* e: it logs the message, evaluates traceback.format_exc() and re-raises e
\* with a bare raise; looking up a name that is not bound raises NameError
\* before the bare raise is reached.  The value is the exception that leaves
\* execute_team.
ExceptBlock(e) ==
    IF "traceback" \in ModuleGlobals THEN e ELSE "NameError"

\* crew.kickoff() returns: the results are built, saved and returned
\* (lines 424-464).
KickoffReturns ==
    /\ pc = "kickoff"
    /\ execution_results' = ExecutionResults(agents, creator_tasks, tasks_by_role)
    /\ result_file' = ResultFile(agents, tasks_by_role)
    /\ pc' = "exec_done"
    /\ UNCHANGED <<team_config, agents, creator_tasks, crew, error>>
    /\ UNCHANGED <<chunkVars, analyzeVars>>
    /\ UNCHANGED statusVars

\* crew.kickoff() raises: the except block logs the error and then evaluates
\* traceback.format_exc(); the module never imports traceback, so the block
\* itself raises NameError (lines 466-470).
KickoffRaises ==
    /\ pc = "kickoff"
    /\ error' = ExceptBlock(ENGINE_ERROR)
    /\ pc' = "exec_raised"
    /\ UNCHANGED <<team_config, agents, creator_tasks, crew,
                   execution_results, result_file>>
    /\ UNCHANGED <<chunkVars, analyzeVars>>
    /\ UNCHANGED statusVars

NextExec ==
    \/ LoadTeam
    \/ AnalyzeResult
    \/ CreateAgents
    \/ AssignTasks
    \/ BuildCrew
    \/ KickoffReturns
    \/ KickoffRaises

SpecExec == InitExec /\ [][NextExec]_vars

-----------------------------------------------------------------------------
(* Properties of TeamMember, TeamAgentCreator and execute_team.            *)

\* The names of l that are keys of TOOL_MAPPING, in the order of l: name j
\* of the result is the name at the j-th position of l that holds a key.
KnownInOrder(l) ==
    LET keep == {n \in 1 .. Len(l) : l[n] \in TOOL_MAPPING}
        nth(j) == CHOOSE n \in keep : Cardinality({m \in keep : m < n}) = j - 1
    IN  [j \in 1 .. Cardinality(keep) |-> l[nth(j)]]

TeamLoaded == pc \in {"analyze", "execute_team"} /\ team_config # << >>

\* C8: every configured member is constructed, none fails, and the tools of
\* a member are exactly its configured names that are keys of TOOL_MAPPING,
\* in the configured order; the names <<Cursor, Bogus>> resolve to <<Cursor>>.
C8_ToolsAreKnownNamesInOrder ==
    TeamLoaded =>
        /\ Len(team_members) = Len(team_config)
        /\ \A k \in 1 .. Len(team_members) :
              /\ team_members[k].role = team_config[k].role
              /\ team_members[k].tools = KnownInOrder(team_config[k].tools)
              /\ team_config[k].tools = <<"Cursor", "Bogus">>
                    => team_members[k].tools = <<"Cursor">>

\* A member configured with the tools <<Cursor, Bogus>> has been constructed.
C8_Witness ==
    /\ TeamLoaded
    /\ \E k \in 1 .. Len(team_members) :
          /\ team_config[k].tools = <<"Cursor", "Bogus">>
          /\ team_members[k].tools = <<"Cursor">>

CrewBuilt == pc \in {"kickoff", "exec_done", "exec_raised"}

\* C9, as claimed: the crew handed to the engine holds an agent only for
\* roles whose list in the TaskSet is not empty.
C9_AgentsOnlyForRolesWithTasks ==
    CrewBuilt =>
        \A n \in 1 .. Len(crew.agents) :
            DictGet(tasks_by_role, crew.agents[n].role) # << >>

\* C9, amended: the crew handed to the engine holds one agent for every team
\* member, in member order, whether or not the member's role has tasks; a
\* role with an empty list only has no task in the crew's task list.
C9_AgentForEveryMember ==
    CrewBuilt =>
        /\ [n \in 1 .. Len(crew.agents) |-> crew.agents[n].role]
              = [n \in 1 .. Len(team_members) |-> team_members[n].role]
        /\ \A k \in 1 .. Len(tasks_by_role) :
              tasks_by_role[k][2] = << >> =>
                  \A n \in 1 .. Len(crew.tasks) :
                      crew.tasks[n].agent.role # tasks_by_role[k][1]

\* The crew was built for a team of two: one role has tasks, the other has
\* none and has an agent in the crew all the same.
C9_Witness ==
    /\ CrewBuilt
    /\ Len(crew.agents) = 2
    /\ \E n \in 1 .. 2 : DictGet(tasks_by_role, crew.agents[n].role) = << >>
    /\ \E n \in 1 .. 2 : DictGet(tasks_by_role, crew.agents[n].role) # << >>

\* The number of task strings the TaskSet lists before its k-th role.
RECURSIVE TasksBefore(_, _)
TasksBefore(tbr, k) ==
    IF k <= 1 THEN 0
    ELSE TasksBefore(tbr, k - 1) + Len(tbr[k - 1][2])

\* C10: the crew's task list is the flattening of the TaskSet: the n-th
\* string of the k-th role is the task at position (strings of the roles
\* before k) + n, bound to the agent of that role, and there is no other
\* task; the count reported for a role is the length of its list.
C10_TasksAreFlattenedTaskSet ==
    /\ CrewBuilt =>
          /\ Len(crew.tasks) = TasksBefore(tasks_by_role, Len(tasks_by_role) + 1)
          /\ \A k \in 1 .. Len(tasks_by_role) :
                \A n \in 1 .. Len(tasks_by_role[k][2]) :
                    LET task == crew.tasks[TasksBefore(tasks_by_role, k) + n]
                    IN  /\ task.description = tasks_by_role[k][2][n]
                        /\ task.agent.role = tasks_by_role[k][1]
                        /\ task.agent = DictGet(agents, tasks_by_role[k][1])
                        /\ task.agent \in Elems(crew.agents)
    /\ pc = "exec_done" =>
          \A k \in 1 .. Len(tasks_by_role) :
              DictGet(execution_results.agents, tasks_by_role[k][1]).assigned_tasks
                  = Len(tasks_by_role[k][2])

\* A run returned for a team of two whose roles each have several tasks,
\* among them a string that both roles list.
C10_Witness ==
    /\ pc = "exec_done"
    /\ Len(tasks_by_role) = 2
    /\ Len(tasks_by_role[1][2]) >= 2
    /\ Len(tasks_by_role[2][2]) >= 2
    /\ tasks_by_role[1][2] # tasks_by_role[2][2]
    /\ Len(crew.tasks) >= 4

\* C14, as claimed: when crew.kickoff() raises, the exception that leaves
\* execute_team is that engine error, no result record has been built and no
\* result file has been written.
C14_EngineErrorPropagates ==
    pc = "exec_raised" =>
        /\ error = ENGINE_ERROR
        /\ execution_results = << >>
        /\ result_file = << >>

-----------------------------------------------------------------------------
(* The Streamlit front end of src/app/test.py: execute_team_tasks with its *)
(* StreamlitLogHandler, the Start and Stop buttons, and execute_team run   *)
(* under that handler.  Every browser session runs its script in a thread  *)
(* of one process; the root logger is shared by the process.               *)

Sessions == {1, 2}

\* The status strings of team_status (test.py lines 260-279).
WAITING == "Waiting"
READY == "Ready"
WORKING == "Working"
TASK_COMPLETED == "Task Completed"

\* A log record by the pattern of emit its message matches, and the session
\* whose run logged it (history).
\*   "created":   "Created agent for {role}: {name}"       (line 153)
\*   "assigned":  "Assigned task to {role}: {task_desc}"   (line 177)
\*   "completed": a message with "completed task" in it, its first word the
\*                role (no statement of the repository logs one)
\*   "other":     any other message, by the line that logs it
OtherRecord(line, run) ==
    [kind |-> "other", role |-> "", task |-> "", line |-> line, run |-> run]

CreatedRecord(role, run) ==
    [kind |-> "created", role |-> role, task |-> "", line |-> 153, run |-> run]

AssignedRecord(role, task, run) ==
    [kind |-> "assigned", role |-> role, task |-> task, line |-> 177,
     run |-> run]

\* team_status = {role: {"status": "Waiting", "current_task": None} for role
\* in st.session_state.tasks.keys()}
InitialStatus(tasks) ==
    [k \in 1 .. Len(tasks) |->
        <<tasks[k][1], [status |-> WAITING, current_task |-> "None"]>>]

\* StreamlitLogHandler.emit(record) on the team_status, current_activity and
\* current_logs of the run that made the handler (test.py lines 264-288).
\* team_status[role] raises KeyError for a role that is not a key; the last
\* statement calls update_display, and raises NameError when that name is
\* not bound.  `raised` is the exception that leaves emit.
emit(ts, activity, logs, record, display) ==
    LET logs1 == Append(logs, record)
        matched == record.kind \in {"created", "assigned", "completed"}
    IN  IF matched /\ ~DictHas(ts, record.role)
        THEN [team_status |-> ts, current_activity |-> activity,
              current_logs |-> logs1, raised |-> "KeyError"]
        ELSE LET old == DictGet(ts, record.role)
                 ts1 == CASE record.kind = "created" ->
                               DictSet(ts, record.role,
                                       [old EXCEPT !.status = READY])
                          [] record.kind = "assigned" ->
                               DictSet(ts, record.role,
                                       [status |-> WORKING,
                                        current_task |-> record.task])
                          [] record.kind = "completed" ->
                               DictSet(ts, record.role,
                                       [old EXCEPT !.status = TASK_COMPLETED])
                          [] OTHER -> ts
                 who == IF matched THEN record.role ELSE "System"
             IN  [team_status |-> ts1,
                  current_activity |->
                      Append(activity, [role |-> who, action |-> record]),
                  current_logs |-> logs1,
                  raised |-> IF display = "bound" THEN "none"
                             ELSE "NameError"]

\* The three collections of every session, as one value.
Trackers ==
    [team_status |-> team_status, current_activity |-> current_activity,
     current_logs |-> current_logs]

\* Logger.callHandlers for one record: the handlers get the record in the
\* order they were added, from handler k on; an exception that leaves one
\* emit leaves the logging call, and the later handlers do not get the
\* record.
RECURSIVE callHandlers(_, _, _, _, _)
callHandlers(tr, hs, k, record, display) ==
    IF k > Len(hs) THEN [trackers |-> tr, raised |-> "none"]
    ELSE LET s == hs[k]
             out == emit(tr.team_status[s], tr.current_activity[s],
                         tr.current_logs[s], record, display)
             tr1 == [team_status |->
                         [tr.team_status EXCEPT ![s] = out.team_status],
                     current_activity |->
                         [tr.current_activity EXCEPT ![s] = out.current_activity],
                     current_logs |->
                         [tr.current_logs EXCEPT ![s] = out.current_logs]]
         IN  IF out.raised # "none"
             THEN [trackers |-> tr1, raised |-> out.raised]
             ELSE callHandlers(tr1, hs, k + 1, record, display)

\* Several logging calls in a row, up to the first that raises.
RECURSIVE logAll(_, _, _, _)
logAll(tr, hs, records, display) ==
    IF records = << >> THEN [trackers |-> tr, raised |-> "none"]
    ELSE LET out == callHandlers(tr, hs, 1, records[1], display)
         IN  IF out.raised # "none" THEN out
             ELSE logAll(out.trackers, hs, Tail(records), display)

\* The tasks handed to the engine for a TaskSet: Crew(tasks=
\* agent_creator.get_all_tasks()) after create_agents() and assign_tasks().
CrewTasks(members, tasks) ==
    get_all_tasks(assign_tasks(create_agents(members), tasks))

\* The records execute_team logs from its first statement to the call of
\* crew.kickoff() (lines 399-423, with lines 153 and 177), in order.
BeforeKickoff(members, tasks, run) ==
    LET ct == CrewTasks(members, tasks)
    IN  <<OtherRecord(399, run), OtherRecord(402, run)>>
        \o [k \in 1 .. Len(members) |-> CreatedRecord(members[k].role, run)]
        \o <<OtherRecord(407, run)>>
        \o [k \in 1 .. Len(ct) |->
               AssignedRecord(ct[k].agent.role, ct[k].description, run)]
        \o <<OtherRecord(411, run), OtherRecord(423, run)>>

\* The records of the loop at lines 448-451.
RECURSIVE TaskDistribution(_, _)
TaskDistribution(tasks, run) ==
    IF tasks = << >> THEN << >>
    ELSE <<OtherRecord(449, run)>>
         \o [n \in 1 .. Len(tasks[1][2]) |-> OtherRecord(451, run)]
         \o TaskDistribution(Tail(tasks), run)

\* The records of the loop at lines 454-460.
RECURSIVE AgentDetails(_, _)
AgentDetails(ags, run) ==
    IF ags = << >> THEN << >>
    ELSE <<OtherRecord(455, run), OtherRecord(456, run), OtherRecord(457, run),
           OtherRecord(458, run), OtherRecord(459, run), OtherRecord(460, run)>>
         \o AgentDetails(Tail(ags), run)

\* The records execute_team logs after the results are saved (lines
\* 447-462), in order.
DetailedResults(members, tasks, run) ==
    <<OtherRecord(447, run)>>
    \o TaskDistribution(tasks, run)
    \o <<OtherRecord(453, run)>>
    \o AgentDetails(create_agents(members), run)
    \o <<OtherRecord(462, run)>>

\* logger.removeHandler(streamlit_handler)
removeHandler(hs, s) == SelectSeq(hs, LAMBDA h : h # s)

\* The task lists a session's analysis may have produced for a role.
SessionTaskLists == {<< >>, <<"a">>, <<"a", "b">>}

\* st.session_state.tasks after analyze_sow: a TaskSet with a task for some
\* role (test.py lines 176-180), or nothing yet.
SessionTaskSets(members) ==
    {ts \in {[k \in 1 .. Len(members) |-> <<members[k].role, l[k]>>] :
                l \in [1 .. Len(members) -> SessionTaskLists]} :
        \E k \in 1 .. Len(ts) : ts[k][2] # << >>}
    \cup {<< >>}

\* st.session_state.sow_file: None until a file is saved, then its path.
NONE == "None"

SOW_PATH == "docs/sow_file.docx"

\* The roles of team.json, in file order.
FrontTeam == <<"Developer", "Tester">>

\* The sessions of the front end before any button is pressed; display says
\* whether update_display is bound, and the sessions in analysed are those
\* whose analysis has produced tasks.
InitFront(display, analysed) ==
    /\ pc = "app"
    /\ chunkIdle
    /\ chunks = << >>
    /\ team_members =
          [k \in 1 .. Len(FrontTeam) |-> TeamMember(FrontTeam[k], << >>)]
    /\ i = 0
    /\ tasks_by_role = << >>
    /\ good = << >>
    /\ failed = << >>
    /\ foreign = FALSE
    /\ execIdle
    /\ update_display = display
    /\ session_tasks \in [Sessions -> SessionTaskSets(team_members)]
    /\ \A s \in Sessions : session_tasks[s] # << >> <=> s \in analysed
    /\ execution_started = [s \in Sessions |-> FALSE]
    /\ execution_completed = [s \in Sessions |-> FALSE]
    /\ run_pc = [s \in Sessions |-> "idle"]
    /\ stream = [s \in Sessions |-> << >>]
    /\ handlers = << >>
    /\ team_status = [s \in Sessions |-> << >>]
    /\ current_activity = [s \in Sessions |-> << >>]
    /\ current_logs = [s \in Sessions |-> << >>]
    /\ engine_task = [s \in Sessions |-> 0]
    /\ run_error = [s \in Sessions |-> "none"]
    /\ outcome = [s \in Sessions |-> "none"]
    /\ runs = [s \in Sessions |-> 0]
    /\ stop_signal = [s \in Sessions |-> FALSE]
    /\ begun_after_stop = [s \in Sessions |-> 0]
    /\ failed_role = [s \in Sessions |-> "none"]
    /\ sow_file = [s \in Sessions |-> IF s \in analysed THEN SOW_PATH ELSE NONE]
    /\ analysis = [s \in Sessions |-> IF s \in analysed THEN "tasks" ELSE "none"]
    /\ start_pressed = [s \in Sessions |-> FALSE]

\* The variables no action of the front end changes.
frontFixed ==
    <<pc, chunkVars, analyzeVars, team_config, agents, creator_tasks, crew,
      execution_results, error, update_display, session_tasks, sow_file,
      analysis>>

SetTrackers(tr) ==
    /\ team_status' = tr.team_status
    /\ current_activity' = tr.current_activity
    /\ current_logs' = tr.current_logs

\* "Start Team Execution" (test.py lines 201-207): the button is drawn when
\* the session has tasks and is disabled once execution_started is set.
StartClick(s) ==
    /\ session_tasks[s] # << >>
    /\ ~execution_started[s]
    /\ execution_started' = [execution_started EXCEPT ![s] = TRUE]
    /\ start_pressed' = [start_pressed EXCEPT ![s] = TRUE]
    /\ UNCHANGED <<execution_completed, run_pc, stream, handlers, team_status,
                   current_activity, current_logs, engine_task, run_error,
                   outcome, runs, stop_signal, begun_after_stop, failed_role,
                   result_file>>
    /\ UNCHANGED frontFixed

\* "Stop Team Execution" (test.py lines 209-215) and stop_team_execution
\* (lines 223-226).
StopClick(s) ==
    /\ session_tasks[s] # << >>
    /\ execution_started[s]
    /\ execution_started' = [execution_started EXCEPT ![s] = FALSE]
    /\ execution_completed' = [execution_completed EXCEPT ![s] = FALSE]
    /\ stop_signal' = [stop_signal EXCEPT ![s] = @ \/ run_pc[s] # "idle"]
    /\ UNCHANGED <<run_pc, stream, handlers, team_status, current_activity,
                   current_logs, engine_task, run_error, outcome, runs,
                   begun_after_stop, failed_role, result_file>>
    /\ UNCHANGED <<start_pressed, frontFixed>>

\* A script run of the session reaches execute_team_tasks with
\* execution_started set and execution_completed not set, and calls
\* setup_logging() (test.py lines 231-233), which logs two records at lines
\* 69-70 and raises again whatever its body raises (lines 80-82).
\* The script is run again after every widget event for as long as the
\* session lives; most caps the runs that get here.
EnterExecuteTeamTasks(s, most) ==
    /\ run_pc[s] = "idle"
    /\ execution_started[s]
    /\ ~execution_completed[s]
    /\ runs[s] < most
    /\ runs' = [runs EXCEPT ![s] = @ + 1]
    /\ stop_signal' = [stop_signal EXCEPT ![s] = FALSE]
    /\ begun_after_stop' = [begun_after_stop EXCEPT ![s] = 0]
    /\ failed_role' = [failed_role EXCEPT ![s] = "none"]
    /\ engine_task' = [engine_task EXCEPT ![s] = 0]
    /\ LET out == logAll(Trackers, handlers,
                         <<OtherRecord(69, s), OtherRecord(70, s)>>,
                         update_display)
       IN  /\ SetTrackers(out.trackers)
           /\ IF out.raised # "none"
              THEN /\ run_pc' = run_pc
                   /\ run_error' = [run_error EXCEPT ![s] = out.raised]
                   /\ outcome' = [outcome EXCEPT ![s] = "raised"]
              ELSE /\ run_pc' = [run_pc EXCEPT ![s] = "add_handler"]
                   /\ run_error' = [run_error EXCEPT ![s] = "none"]
                   /\ outcome' = [outcome EXCEPT ![s] = "none"]
    /\ UNCHANGED <<execution_started, execution_completed, stream, handlers,
                   result_file>>
    /\ UNCHANGED <<start_pressed, frontFixed>>

SetupLogging(s) == EnterExecuteTeamTasks(s, MaxRuns)

\* test.py lines 258-299: the collections of the run are made, the handler
\* is added to the root logger and execute_team is called.
AddHandler(s) ==
    /\ run_pc[s] = "add_handler"
    /\ team_status' = [team_status EXCEPT ![s] = InitialStatus(session_tasks[s])]
    /\ current_activity' = [current_activity EXCEPT ![s] = << >>]
    /\ current_logs' = [current_logs EXCEPT ![s] = << >>]
    /\ handlers' = Append(handlers, s)
    /\ stream' = [stream EXCEPT
                     ![s] = BeforeKickoff(team_members, session_tasks[s], s)]
    /\ run_pc' = [run_pc EXCEPT ![s] = "execute_team"]
    /\ start_pressed' = [start_pressed EXCEPT ![s] = FALSE]
    /\ UNCHANGED <<execution_started, execution_completed, engine_task,
                   run_error, outcome, runs, stop_signal, begun_after_stop,
                   failed_role, result_file>>
    /\ UNCHANGED frontFixed

\* The positions of execute_team at which the next statement logs a record.
LoggingPcs == {"execute_team", "kickoff_returned", "results"}

\* The next logging call of execute_team, inside its try block.
LogNext(s) ==
    /\ run_pc[s] \in LoggingPcs
    /\ stream[s] # << >>
    /\ LET out == callHandlers(Trackers, handlers, 1, Head(stream[s]),
                               update_display)
       IN  /\ SetTrackers(out.trackers)
           /\ IF out.raised # "none"
              THEN /\ run_pc' = [run_pc EXCEPT ![s] = "except"]
                   /\ run_error' = [run_error EXCEPT ![s] = out.raised]
                   /\ stream' = [stream EXCEPT ![s] = << >>]
              ELSE /\ stream' = [stream EXCEPT ![s] = Tail(@)]
                   /\ UNCHANGED <<run_pc, run_error>>
    /\ UNCHANGED <<execution_started, execution_completed, handlers,
                   engine_task, outcome, runs, stop_signal, begun_after_stop,
                   failed_role, result_file>>
    /\ UNCHANGED <<start_pressed, frontFixed>>

\* crew = Crew(..., process=Process.sequential, ...); crew.kickoff() is
\* called (lines 412-424).
Kickoff(s) ==
    /\ run_pc[s] = "execute_team"
    /\ stream[s] = << >>
    /\ run_pc' = [run_pc EXCEPT ![s] = "kickoff"]
    /\ UNCHANGED <<execution_started, execution_completed, stream, handlers,
                   team_status, current_activity, current_logs, engine_task,
                   run_error, outcome, runs, stop_signal, begun_after_stop,
                   failed_role, result_file>>
    /\ UNCHANGED <<start_pressed, frontFixed>>

\* The engine, inside crew.kickoff(), begins the next task of the crew: one
\* at a time, in list order.
TaskBegins(s) ==
    /\ run_pc[s] = "kickoff"
    /\ engine_task[s] < Len(CrewTasks(team_members, session_tasks[s]))
    /\ engine_task' = [engine_task EXCEPT ![s] = @ + 1]
    /\ begun_after_stop' =
          [begun_after_stop EXCEPT ![s] = IF stop_signal[s] THEN @ + 1 ELSE @]
    /\ run_pc' = [run_pc EXCEPT ![s] = "task"]
    /\ UNCHANGED <<execution_started, execution_completed, stream, handlers,
                   team_status, current_activity, current_logs, run_error,
                   outcome, runs, stop_signal, failed_role, result_file>>
    /\ UNCHANGED <<start_pressed, frontFixed>>

\* The task the engine is executing finishes.
TaskEnds(s) ==
    /\ run_pc[s] = "task"
    /\ run_pc' = [run_pc EXCEPT ![s] = "kickoff"]
    /\ UNCHANGED <<execution_started, execution_completed, stream, handlers,
                   team_status, current_activity, current_logs, engine_task,
                   run_error, outcome, runs, stop_signal, begun_after_stop,
                   failed_role, result_file>>
    /\ UNCHANGED <<start_pressed, frontFixed>>

\* The task the engine is executing raises, and so does crew.kickoff().
TaskRaises(s) ==
    /\ run_pc[s] = "task"
    /\ run_pc' = [run_pc EXCEPT ![s] = "except"]
    /\ run_error' = [run_error EXCEPT ![s] = ENGINE_ERROR]
    /\ failed_role' =
          [failed_role EXCEPT
              ![s] = CrewTasks(team_members,
                               session_tasks[s])[engine_task[s]].agent.role]
    /\ UNCHANGED <<execution_started, execution_completed, stream, handlers,
                   team_status, current_activity, current_logs, engine_task,
                   outcome, runs, stop_signal, begun_after_stop, result_file>>
    /\ UNCHANGED <<start_pressed, frontFixed>>

\* crew.kickoff() returns after the last task; line 425 is next.
KickoffDone(s) ==
    /\ run_pc[s] = "kickoff"
    /\ engine_task[s] = Len(CrewTasks(team_members, session_tasks[s]))
    /\ run_pc' = [run_pc EXCEPT ![s] = "kickoff_returned"]
    /\ stream' = [stream EXCEPT ![s] = <<OtherRecord(425, s)>>]
    /\ UNCHANGED <<execution_started, execution_completed, handlers,
                   team_status, current_activity, current_logs, engine_task,
                   run_error, outcome, runs, stop_signal, begun_after_stop,
                   failed_role, result_file>>
    /\ UNCHANGED <<start_pressed, frontFixed>>

\* Lines 428-444: the result record is built and save_results_to_json
\* writes result.json; lines 447-462 are next.
SaveResults(s) ==
    /\ run_pc[s] = "kickoff_returned"
    /\ stream[s] = << >>
    /\ result_file' = ResultFile(create_agents(team_members), session_tasks[s])
    /\ run_pc' = [run_pc EXCEPT ![s] = "results"]
    /\ stream' = [stream EXCEPT
                     ![s] = DetailedResults(team_members, session_tasks[s], s)]
    /\ UNCHANGED <<execution_started, execution_completed, handlers,
                   team_status, current_activity, current_logs, engine_task,
                   run_error, outcome, runs, stop_signal, begun_after_stop,
                   failed_role>>
    /\ UNCHANGED <<start_pressed, frontFixed>>

\* execute_team returns; test.py line 304 and the finally clause (line 310).
RunReturns(s) ==
    /\ run_pc[s] = "results"
    /\ stream[s] = << >>
    /\ execution_completed' = [execution_completed EXCEPT ![s] = TRUE]
    /\ handlers' = removeHandler(handlers, s)
    /\ run_pc' = [run_pc EXCEPT ![s] = "idle"]
    /\ outcome' = [outcome EXCEPT ![s] = "completed"]
    /\ UNCHANGED <<execution_started, stream, team_status, current_activity,
                   current_logs, engine_task, run_error, runs, stop_signal,
                   begun_after_stop, failed_role, result_file>>
    /\ UNCHANGED <<start_pressed, frontFixed>>

\* The except block of execute_team (lines 466-470): logging.error(error_msg)
\* and then the rest of the block; the exception that leaves execute_team is
\* caught at test.py lines 306-308, and the finally clause removes the
\* handler.
RunRaises(s) ==
    /\ run_pc[s] = "except"
    /\ LET out == callHandlers(Trackers, handlers, 1, OtherRecord(468, s),
                               update_display)
       IN  /\ SetTrackers(out.trackers)
           /\ run_error' =
                 [run_error EXCEPT
                     ![s] = IF out.raised # "none" THEN out.raised
                            ELSE ExceptBlock(@)]
    /\ execution_completed' = [execution_completed EXCEPT ![s] = FALSE]
    /\ handlers' = removeHandler(handlers, s)
    /\ run_pc' = [run_pc EXCEPT ![s] = "idle"]
    /\ outcome' = [outcome EXCEPT ![s] = "raised"]
    /\ UNCHANGED <<execution_started, stream, engine_task, runs, stop_signal,
                   begun_after_stop, failed_role, result_file>>
    /\ UNCHANGED <<start_pressed, frontFixed>>

\* test.py as written: update_display is bound nowhere (no definition in
\* execute_team_tasks, none at module level), so every emit raises and no
\* run gets past its first logging call.
NextApp ==
    \E s \in Sessions :
        \/ StartClick(s)
        \/ StopClick(s)
        \/ SetupLogging(s)
        \/ AddHandler(s)
        \/ LogNext(s)
        \/ RunRaises(s)

SpecApp == InitFront("unbound", Sessions) /\ [][NextApp]_vars

\* The same front end with update_display bound to a function that returns,
\* as the nested function of AI_Team_App.py (lines 186-199) is: the records
\* of a run go through the status logic of emit.
NextStatus ==
    \E s \in Sessions :
        \/ StartClick(s)
        \/ StopClick(s)
        \/ SetupLogging(s)
        \/ AddHandler(s)
        \/ LogNext(s)
        \/ Kickoff(s)
        \/ TaskBegins(s)
        \/ TaskEnds(s)
        \/ TaskRaises(s)
        \/ KickoffDone(s)
        \/ SaveResults(s)
        \/ RunReturns(s)
        \/ RunRaises(s)

SpecStatus == InitFront("bound", {1}) /\ [][NextStatus]_vars

-----------------------------------------------------------------------------
(* One session of test.py from its first script run: main() (lines         *)
(* 312-333) with upload_sow_file, analyze_sow and the buttons.             *)

\* any(d.values()) of a dict of lists
AnyValue(d) == \E k \in 1 .. Len(d) : d[k][2] # << >>

\* What analyze_and_generate_tasks can return for the team: a list, empty or
\* not, under every role.
AnalysisReplies(members) ==
    {[k \in 1 .. Len(members) |-> <<members[k].role, l[k]>>] :
        l \in [1 .. Len(members) -> SessionTaskLists]}

AnalysedTasks_StoreAnyReply(tasks) == tasks

\* analyze_sow, lines 175-180: what st.session_state.tasks is set to for the
\* dict the analyzer returned (<< >> is None).
AnalysedTasks(tasks) ==
    IF tasks = << >> \/ ~AnyValue(tasks) THEN << >> ELSE tasks

\* The variables of the session's execution that upload and analysis leave
\* alone.
runVars ==
    <<execution_started, execution_completed, run_pc, stream, handlers,
      team_status, current_activity, current_logs, engine_task, run_error,
      outcome, runs, stop_signal, begun_after_stop, failed_role, result_file,
      start_pressed>>

pipelineFixed ==
    <<pc, chunkVars, analyzeVars, team_config, agents, creator_tasks, crew,
      execution_results, error, update_display>>

\* Step 1 of main() (lines 320-321) and upload_sow_file (lines 132-160): the
\* user hands a file to the uploader; sow_file is set when saving it worked.
UploadSowFile(s) ==
    /\ run_pc[s] = "idle"
    /\ sow_file[s] = NONE
    /\ \E saved \in BOOLEAN :
          sow_file' = [sow_file EXCEPT ![s] = IF saved THEN SOW_PATH ELSE NONE]
    /\ UNCHANGED <<session_tasks, analysis>>
    /\ UNCHANGED runVars
    /\ UNCHANGED pipelineFixed

\* Step 2 of main() (lines 324-325) and analyze_sow (lines 162-189): runs in
\* every script run in which sow_file is set and tasks is not; the except
\* clause (lines 184-186) leaves st.session_state.tasks as it was.
AnalyzeSow(s) ==
    /\ run_pc[s] = "idle"
    /\ sow_file[s] # NONE
    /\ session_tasks[s] = << >>
    /\ \E raised \in BOOLEAN, tasks \in AnalysisReplies(team_members) :
          IF raised
          THEN /\ analysis' = [analysis EXCEPT ![s] = "raised"]
               /\ UNCHANGED session_tasks
          ELSE /\ analysis' =
                     [analysis EXCEPT
                         ![s] = IF AnyValue(tasks) THEN "tasks" ELSE "no_tasks"]
               /\ session_tasks' =
                     [session_tasks EXCEPT ![s] = AnalysedTasks(tasks)]
    /\ UNCHANGED sow_file
    /\ UNCHANGED runVars
    /\ UNCHANGED pipelineFixed

\* Step 4 of main() (lines 332-333) in a script run of the session.
ScriptRun(s) == EnterExecuteTeamTasks(s, MaxReruns)

\* The session that is followed.
Browsing == {1}

NextSession ==
    \E s \in Browsing :
        \/ UploadSowFile(s)
        \/ AnalyzeSow(s)
        \/ StartClick(s)
        \/ StopClick(s)
        \/ ScriptRun(s)
        \/ AddHandler(s)
        \/ LogNext(s)
        \/ RunRaises(s)

SpecSession == InitFront("unbound", {}) /\ [][NextSession]_vars

-----------------------------------------------------------------------------
(* Properties of the status tracking of the front end.                     *)

StatusOf(s, role) == DictGet(team_status[s], role).status

\* The roles of the session's TaskSet with at least one task.
RolesWithTasks(s) ==
    {session_tasks[s][k][1] : k \in {n \in 1 .. Len(session_tasks[s]) :
                                        session_tasks[s][n][2] # << >>}}

\* The roles of which the engine has begun a task in the session's run.
RolesBegun(s) ==
    {CrewTasks(team_members, session_tasks[s])[n].agent.role :
        n \in 1 .. engine_task[s]}

\* The run of the session is between the creation of its team_status and
\* its end.
Running(s) == run_pc[s] \notin {"idle", "add_handler"}

FAILED == "Failed"

\* The run of session s has logged the "Created agent for" record of role.
AgentCreated(s, role) ==
    \E n \in 1 .. Len(current_logs[s]) :
        /\ current_logs[s][n].kind = "created"
        /\ current_logs[s][n].role = role
        /\ current_logs[s][n].run = s

C16_RunsShareNoTrackerState ==
    \A s \in Sessions :
        /\ \A n \in 1 .. Len(current_logs[s]) : current_logs[s][n].run = s
        /\ \A n \in 1 .. Len(current_activity[s]) :
              current_activity[s][n].action.run = s


-----------------------------------------------------------------------------
(* Properties of main() of the front end.                                  *)

\* C21: execution_started is set only while the session holds a task set
\* with a task under some role, a task set is held only once a SOW file has
\* been saved, and an analysis that raised or produced no task leaves the
\* session without a task set; so no run is made on a missing or all-empty
\* task set.
C21_StartedOnlyWithTasksFromUpload ==
    \A s \in Sessions :
        /\ execution_started[s] => AnyValue(session_tasks[s])
        /\ runs[s] > 0 => AnyValue(session_tasks[s])
        /\ session_tasks[s] # << >> => sow_file[s] # NONE
        /\ analysis[s] \in {"raised", "no_tasks"} => session_tasks[s] = << >>

C21_Witness ==
    \E s \in Sessions :
        /\ analysis[s] = "tasks"
        /\ execution_started[s]
        /\ run_pc[s] = "execute_team"

\* C22: execute_team is called at most once for every press of Start Team
\* Execution: a script run calls it only if Start was pressed since the
\* call before.
C22_OneExecutionPerStartPress ==
    [][\A s \in Sessions :
          (run_pc[s] = "add_handler" /\ run_pc'[s] = "execute_team")
              => start_pressed[s]]_vars


=============================================================================
